---- MODULE Spec2Model ----
(***************************************************************************)
(* Model of app.py: the Trimble Connect / VIKTOR integration.              *)
(*                                                                         *)
(* Strings are sequences of one-character strings, so that lstrip, upper   *)
(* and replace are computed character by character as Python computes      *)
(* them.  A Python value that may be None or absent from a JSON object is  *)
(* a record [k, s]: k = "missing" (key absent), "null" (None) or "str"     *)
(* (the string s).                                                         *)
(***************************************************************************)
EXTENDS Integers, Sequences, FiniteSets, TLC

\* ------------------------------------------------------------------ bounds
\* Largest number of items (folders and leaves) of a remote tree.
MaxItems == 3
\* Largest number of items of a remote tree whose type tags range over TagVals.
MaxTagItems == 1
\* Largest number of projects the remote returns.
MaxProjects == 2
\* Largest number of items of the remote tree behind the option lists.
MaxSmallItems == 2
\* Largest number of items of the remote tree and of projects behind the form.
MaxFormItems == 1
MaxFormProjects == 1

\* ---------------------------------------------------------- Python values
None == [k |-> "null", s |-> <<>>]
Missing == [k |-> "missing", s |-> <<>>]
Str(s) == [k |-> "str", s |-> s]

\* Python truthiness of None / str.
Truthy(v) == v.k = "str" /\ v.s # <<>>

\* `v is None` in place of `not v`: the empty string passes.
NotIsNone(v) == v.k # "str"

\* `not v`
Not(v) == ~Truthy(v)

\* dict.get(key): None when the key is absent.
Get(v) == IF v.k = "missing" THEN None ELSE v

\* `a or b`
Or(a, b) == IF Truthy(a) THEN a ELSE b

Lower == <<"a","b","c","d","e","f","g","h","i","j","k","l","m",
           "n","o","p","q","r","s","t","u","v","w","x","y","z">>
Capital == <<"A","B","C","D","E","F","G","H","I","J","K","L","M",
             "N","O","P","Q","R","S","T","U","V","W","X","Y","Z">>

UpperChar(c) ==
  IF \E i \in 1..26 : Lower[i] = c
  THEN Capital[CHOOSE i \in 1..26 : Lower[i] = c]
  ELSE c

\* str.upper()
Upper(s) == [i \in 1..Len(s) |-> UpperChar(s[i])]

RECURSIVE LstripFrom(_, _)
LstripFrom(s, i) ==
  IF i > Len(s) THEN <<>>
  ELSE IF s[i] = "/" THEN LstripFrom(s, i + 1)
  ELSE SubSeq(s, i, Len(s))

\* str.lstrip("/"): every leading "/" is removed.
Lstrip(s) == LstripFrom(s, 1)

\* ------------------------------------------------------------ literals
FOLDER == <<"F","O","L","D","E","R">>
ERROR_VALUE == <<"e","r","r","o","r">>
SELECT_PROJECT_FIRST == <<"S","e","l","e","c","t"," ","a"," ","P","r","o","j","e","c","t"," ","F","i","r","s","t">>
NO_PROJECTS_FOUND == <<"N","o"," ","p","r","o","j","e","c","t","s"," ","f","o","u","n","d">>
ERROR_LOADING_PROJECTS == <<"E","r","r","o","r"," ","l","o","a","d","i","n","g"," ","p","r","o","j","e","c","t","s",":"," ">>
NO_ROOT_FOLDER == <<"C","o","u","l","d"," ","n","o","t"," ","f","i","n","d"," ","r","o","o","t"," ","f","o","l","d","e","r">>
NO_FILES_FOUND == <<"N","o"," ","f","i","l","e","s"," ","f","o","u","n","d"," ","i","n"," ","p","r","o","j","e","c","t">>
ERROR_LOADING_FILES == <<"E","r","r","o","r"," ","l","o","a","d","i","n","g"," ","f","i","l","e","s",":"," ">>
NO_ROOT_FOLDER_ID == <<"C","o","u","l","d"," ","n","o","t"," ","f","i","n","d"," ","r","o","o","t"," ","f","o","l","d","e","r"," ","I","D"," ","f","o","r"," ","t","h","i","s"," ","p","r","o","j","e","c","t",".">>

\* ------------------------------------------------------------ the remote
VARIABLES
  remote,      \* the items of the project's tree: <<[parent, name, type, entityType], ...>>
  op,          \* the handler that ran ("none" before any)
  input,       \* the inputs of that run
  outcome,     \* "returned" or "raised"
  requests,    \* the folder ids of the GET /folders/{id}/items requests issued, in order
  files,       \* the list list_project_files returned
  lost,        \* the records the walk had collected when a request failed
  options,     \* the option list get_trimble_projects / get_project_files returned
  data,        \* the data group test_oauth2_token returned
  err,         \* the message of the exception raised or caught
  params_project,   \* params.project, the value of the project field
  params_file,      \* params.file, the value of the file field
  project_options,  \* the options the project field shows
  file_options,     \* the options the file field shows
  built,            \* the arguments of the last build_trimble_viewer_html call
  html,             \* the document that call returned
  message           \* what the last download / view reported instead of a document

Digit == <<"1","2","3","4","5","6","7","8","9">>

\* The identifier of the root folder (rootId of the project) and of item i.
ROOT == <<"r">>
ItemId(i) == <<"i", Digit[i]>>

ParentId(i) == IF remote[i].parent = 0 THEN ROOT ELSE ItemId(remote[i].parent)

\* The JSON object of item i in a listing.
ItemJson(i) ==
  [id |-> ItemId(i), name |-> remote[i].name,
   type |-> remote[i].type, entityType |-> remote[i].entityType]

RECURSIVE ChildrenFrom(_, _)
ChildrenFrom(folder_id, i) ==
  IF i > Len(remote) THEN <<>>
  ELSE (IF ParentId(i) = folder_id THEN <<ItemJson(i)>> ELSE <<>>)
       \o ChildrenFrom(folder_id, i + 1)

\* The body of the answer to GET /folders/{folder_id}/items.
FolderItems(folder_id) == ChildrenFrom(folder_id, 1)

\* ------------------------------------------------------- the folder walk
\* The type tag compared without .upper().
ItemTypeCaseSensitive(item) == Or(Or(Get(item.type), Get(item.entityType)), Str(<<>>)).s

\* item_type = (item.get("type") or item.get("entityType") or "").upper()
ItemType(item) == Upper(Or(Or(Get(item.type), Get(item.entityType)), Str(<<>>)).s)

\* The path without .lstrip("/").
ItemPathUnstripped(current_path, name) == current_path \o <<"/">> \o name

\* The path built from the name alone, current_path forgotten.
ItemPathNameOnly(current_path, name) == Lstrip(<<"/">> \o name)

\* item_path = f"{current_path}/{name}".lstrip("/")
ItemPath(current_path, name) == Lstrip(current_path \o <<"/">> \o name)

\* files = list_folder(...) in place of files.extend(...).
ExtendDropping(fs, sub) == sub

\* The records of the subfolder put in front of those collected so far.
ExtendInFront(fs, sub) == sub \o fs

\* files.extend(list_folder(item_id, item_path))
Extend(fs, sub) == fs \o sub

\* files.append({"id": ..., "name": ..., "path": ...}); size, modifiedAt and
\* raw are copies of the item's fields and take no part in the walk.
AppendRecord(fs, item, item_path) ==
  Append(fs, [id |-> item.id, name |-> item.name, path |-> item_path])

\* list_folder(folder_id, current_path).  reqs is the list of requests issued
\* so far and failAt the number of the request that fails (0: none).  The
\* answer is [ok, files, reqs, lost]: ok = FALSE when an exception left the
\* call, lost being the records held in the frames the exception unwound.
RECURSIVE list_folder(_, _, _, _)
RECURSIVE for_items(_, _, _, _, _, _)
list_folder(folder_id, current_path, reqs, failAt) ==
  LET reqs1 == Append(reqs, folder_id) IN
  IF Len(reqs1) = failAt
  THEN [ok |-> FALSE, files |-> <<>>, reqs |-> reqs1, lost |-> <<>>]
  ELSE for_items(FolderItems(folder_id), 1, current_path, <<>>, reqs1, failAt)

for_items(items, k, current_path, fs, reqs, failAt) ==
  IF k > Len(items)
  THEN [ok |-> TRUE, files |-> fs, reqs |-> reqs, lost |-> <<>>]
  ELSE
    LET item == items[k]
        item_path == ItemPath(current_path, item.name)
    IN IF ItemType(item) = FOLDER
       THEN LET sub == list_folder(item.id, item_path, reqs, failAt) IN
            IF sub.ok
            THEN for_items(items, k + 1, current_path, Extend(fs, sub.files), sub.reqs, failAt)
            ELSE [ok |-> FALSE, files |-> <<>>, reqs |-> sub.reqs, lost |-> fs \o sub.lost]
       ELSE for_items(items, k + 1, current_path,
                      AppendRecord(fs, item, item_path), reqs, failAt)

\* ------------------------------------------------------------- handlers
\* list_project_files with the walk's exception swallowed: the records
\* collected before the failure are returned.
list_project_files_swallowing(lookup, rootId, failAt, msg) ==
  LET root_id == Get(rootId) IN
  IF lookup # "ok"
  THEN [outcome |-> "raised", files |-> <<>>, reqs |-> <<>>, lost |-> <<>>, err |-> msg]
  ELSE IF Not(root_id)
  THEN [outcome |-> "raised", files |-> <<>>, reqs |-> <<>>, lost |-> <<>>,
        err |-> NO_ROOT_FOLDER_ID]
  ELSE LET w == list_folder(root_id.s, <<>>, <<>>, failAt) IN
       [outcome |-> "returned", files |-> IF w.ok THEN w.files ELSE w.lost,
        reqs |-> w.reqs, lost |-> <<>>, err |-> <<>>]

\* Controller.list_project_files(project_id, token).  lookup is the fate of
\* GET /projects/{id} ("ok", "network", "http"), rootId the rootId field of
\* its answer, failAt the folder listing that fails, msg the text of the
\* exception a failing request raises.
list_project_files(lookup, rootId, failAt, msg) ==
  LET root_id == Get(rootId) IN
  IF lookup # "ok"
  THEN [outcome |-> "raised", files |-> <<>>, reqs |-> <<>>, lost |-> <<>>, err |-> msg]
  ELSE IF Not(root_id)
  THEN [outcome |-> "raised", files |-> <<>>, reqs |-> <<>>, lost |-> <<>>,
        err |-> NO_ROOT_FOLDER_ID]
  ELSE LET w == list_folder(root_id.s, <<>>, <<>>, failAt) IN
       IF w.ok
       THEN [outcome |-> "returned", files |-> w.files, reqs |-> w.reqs,
             lost |-> <<>>, err |-> <<>>]
       ELSE [outcome |-> "raised", files |-> <<>>, reqs |-> w.reqs,
             lost |-> w.lost, err |-> msg]

Option(value, label) == [value |-> value, label |-> label]

\* The sentinel without str(e).
FilesErrorOptionsNoMessage(msg) == <<[value |-> Str(ERROR_VALUE), label |-> ERROR_LOADING_FILES]>>

\* except Exception as e: the option list of get_project_files.
FilesErrorOptions(msg) == <<Option(Str(ERROR_VALUE), ERROR_LOADING_FILES \o msg)>>

\* except Exception as e: the option list of get_trimble_projects.
ProjectsErrorOptions(msg) == <<Option(Str(ERROR_VALUE), ERROR_LOADING_PROJECTS \o msg)>>

\* [OptionListElement(value=file["id"], label=file["path"]) for file in files]
FileOptions(fs) == [i \in 1..Len(fs) |-> Option(Str(fs[i].id), fs[i].path)]

\* get_project_files(params).  tokenOk: get_access_token() succeeds.
get_project_files(project, tokenOk, lookup, rootId, failAt, msg) ==
  LET root_id == Get(rootId)
      w == list_folder(root_id.s, <<>>, <<>>, failAt)
  IN
  IF Not(project)
  THEN [options |-> <<Option(Str(SELECT_PROJECT_FIRST), SELECT_PROJECT_FIRST)>>,
        reqs |-> <<>>, lost |-> <<>>, err |-> <<>>, caught |-> FALSE]
  ELSE IF ~tokenOk \/ lookup # "ok"
  THEN [options |-> FilesErrorOptions(msg),
        reqs |-> <<>>, lost |-> <<>>, err |-> msg, caught |-> TRUE]
  ELSE IF Not(root_id)
  THEN [options |-> <<Option(Str(<<>>), NO_ROOT_FOLDER)>>,
        reqs |-> <<>>, lost |-> <<>>, err |-> <<>>, caught |-> FALSE]
  ELSE IF ~w.ok
  THEN [options |-> FilesErrorOptions(msg),
        reqs |-> w.reqs, lost |-> w.lost, err |-> msg, caught |-> TRUE]
  ELSE [options |-> IF w.files # <<>> THEN FileOptions(w.files)
                    ELSE <<Option(Str(<<>>), NO_FILES_FOUND)>>,
        reqs |-> w.reqs, lost |-> <<>>, err |-> <<>>, caught |-> FALSE]

\* str(KeyError(key)) for the keys "id" and "name".
KeyErrorText(key) == <<"'">> \o key \o <<"'">>

\* The first project of the answer that lacks "id" or "name" (0: none).
FirstBadProject(ps) ==
  IF \E i \in 1..Len(ps) : ps[i].id.k = "missing" \/ ps[i].name.k = "missing"
  THEN CHOOSE i \in 1..Len(ps) :
         /\ ps[i].id.k = "missing" \/ ps[i].name.k = "missing"
         /\ \A j \in 1..(i - 1) : ps[j].id.k # "missing" /\ ps[j].name.k # "missing"
  ELSE 0

\* get_trimble_projects().  fetch is the fate of GET /projects, ps its answer.
get_trimble_projects(tokenOk, fetch, ps, msg) ==
  LET bad == FirstBadProject(ps) IN
  IF ~tokenOk \/ fetch # "ok"
  THEN [options |-> ProjectsErrorOptions(msg), err |-> msg, caught |-> TRUE]
  ELSE IF bad # 0
  THEN LET text == KeyErrorText(IF ps[bad].id.k = "missing" THEN <<"i","d">>
                                ELSE <<"n","a","m","e">>)
       IN [options |-> ProjectsErrorOptions(text), err |-> text, caught |-> TRUE]
  ELSE [options |-> IF ps # <<>>
                    THEN [i \in 1..Len(ps) |-> Option(ps[i].id, ps[i].name.s)]
                    ELSE <<Option(Str(<<>>), NO_PROJECTS_FOUND)>>,
        err |-> <<>>, caught |-> FALSE]

\* files[:5]
FirstFive(fs) == SubSeq(fs, 1, IF Len(fs) < 5 THEN Len(fs) ELSE 5)

NoData == [shown |-> FALSE, total |-> 0, sample |-> <<>>, more |-> 0,
           failed |-> FALSE, error |-> <<>>]

\* The part of the data group of test_oauth2_token that lists the files.
FileData(r) ==
  IF r.outcome = "returned"
  THEN [shown |-> TRUE, total |-> Len(r.files),
        sample |-> [i \in 1..Len(FirstFive(r.files)) |-> r.files[i].path],
        more |-> IF Len(r.files) > 5 THEN Len(r.files) - 5 ELSE 0,
        failed |-> FALSE, error |-> <<>>]
  ELSE [shown |-> TRUE, total |-> 0, sample |-> <<>>, more |-> 0,
        failed |-> TRUE, error |-> r.err]

\* ------------------------------------------------------ viewer document
ACCESS_TOKEN_MARKER == <<"_","_","A","C","C","E","S","S","_","T","O","K","E","N","_","_">>
PROJECT_ID_MARKER == <<"_","_","P","R","O","J","E","C","T","_","I","D","_","_">>
MODEL_ID_MARKER == <<"_","_","M","O","D","E","L","_","I","D","_","_">>
VERSION_ID_MARKER == <<"_","_","V","E","R","S","I","O","N","_","I","D","_","_">>

\* The text of the template between its markers (the four const lines).
TemplateHead == <<" "," "," "," "," "," ","c","o","n","s","t"," ","A","C","C","E","S","S","_","T","O","K","E","N"," ","="," ","\"">>
TemplateAfterToken == <<"\"",";","\n"," "," "," "," "," "," ","c","o","n","s","t"," ","P","R","O","J","E","C","T","_","I","D"," "," "," ","="," ","\"">>
TemplateAfterProject == <<"\"",";","\n"," "," "," "," "," "," ","c","o","n","s","t"," ","M","O","D","E","L","_","I","D"," "," "," "," "," ","="," ","\"">>
TemplateAfterModel == <<"\"",";","\n"," "," "," "," "," "," ","c","o","n","s","t"," ","V","E","R","S","I","O","N","_","I","D"," "," "," ","="," ","\"">>
TemplateTail == <<"\"",";","\n">>

\* The lines of VIEWER_HTML_TEMPLATE that carry the markers; no other line of
\* the template holds two consecutive underscores.
VIEWER_HTML_TEMPLATE ==
  TemplateHead \o ACCESS_TOKEN_MARKER \o TemplateAfterToken \o PROJECT_ID_MARKER
  \o TemplateAfterProject \o MODEL_ID_MARKER \o TemplateAfterModel
  \o VERSION_ID_MARKER \o TemplateTail

\* s[i:].startswith(old)
StartsAt(s, i, old) ==
  /\ i + Len(old) - 1 <= Len(s)
  /\ SubSeq(s, i, i + Len(old) - 1) = old

\* The positions at or after i where old occurs in s.
MatchesFrom(s, i, old) == {j \in i..Len(s) : StartsAt(s, j, old)}

RECURSIVE ReplaceFrom(_, _, _, _)
\* s[i:] with the occurrences of old replaced, the leftmost first and the
\* scan resuming behind each occurrence replaced.
ReplaceFrom(s, i, old, new) ==
  IF MatchesFrom(s, i, old) = {} THEN SubSeq(s, i, Len(s))
  ELSE LET j == CHOOSE m \in MatchesFrom(s, i, old) :
                  \A n \in MatchesFrom(s, i, old) : m <= n
       IN SubSeq(s, i, j - 1) \o new \o ReplaceFrom(s, j + Len(old), old, new)

\* str.replace(old, new) for a non-empty old: every non-overlapping
\* occurrence, leftmost first.
Replace(s, old, new) == ReplaceFrom(s, 1, old, new)

\* build_trimble_viewer_html with project_id and model_id interchanged.
build_trimble_viewer_html_swapped(access_token, project_id, model_id, version_id) ==
  LET html1 == Replace(VIEWER_HTML_TEMPLATE, ACCESS_TOKEN_MARKER, access_token)
      html2 == Replace(html1, PROJECT_ID_MARKER, model_id)
      html3 == Replace(html2, MODEL_ID_MARKER, project_id)
  IN Replace(html3, VERSION_ID_MARKER, Or(version_id, Str(<<>>)).s)

\* build_trimble_viewer_html(access_token, project_id, model_id, version_id)
build_trimble_viewer_html(access_token, project_id, model_id, version_id) ==
  LET html1 == Replace(VIEWER_HTML_TEMPLATE, ACCESS_TOKEN_MARKER, access_token)
      html2 == Replace(html1, PROJECT_ID_MARKER, project_id)
      html3 == Replace(html2, MODEL_ID_MARKER, model_id)
  IN Replace(html3, VERSION_ID_MARKER, Or(version_id, Str(<<>>)).s)

\* ---------------------------------------------------------------- inputs
Names == {<<>>, <<"a">>, <<"/">>}
PlainTypes == {Str(FOLDER), Str(<<"f","i","l","e">>)}
TagVals == {Missing, None, Str(<<>>), Str(FOLDER), Str(<<"f","o","l","d","e","r">>),
            Str(<<"F","o","l","d","e","r">>), Str(<<"f","i","l","e">>)}
RootIds == {Missing, None, Str(<<>>), Str(ROOT)}
ErrMsgs == {<<"4","0","4">>, <<>>}
WalkErrMsgs == {<<"4","0","4">>}
PROJECT_1 == <<"P","1">>
PROJECT_2 == <<"P","2">>
ParamProjects == {None, Str(<<>>), Str(ERROR_VALUE), Str(PROJECT_1)}
ProjectJsons == {[id |-> Str(PROJECT_1), name |-> Str(<<"A">>)],
                 [id |-> Str(PROJECT_2), name |-> Str(<<>>)],
                 [id |-> Str(PROJECT_2), name |-> Missing],
                 [id |-> Missing, name |-> Str(<<"B">>)]}
ProjectListsUpTo(max) == UNION {[1..n -> ProjectJsons] : n \in 0..max}
TOKEN == <<"T">>

\* The trees of n items: an item's parent is the root (0) or an earlier item
\* that the listing presents as a folder; a listing returns the children of a
\* folder in the order of their numbers.
TreesOf(n, names, types, entityTypes) ==
  {t \in [1..n -> [parent : 0..(n - 1), name : names, type : types,
                   entityType : entityTypes]] :
     \A i \in 1..n :
       /\ t[i].parent < i
       /\ t[i].parent # 0 => ItemType(t[t[i].parent]) = FOLDER}

PlainTrees == UNION {TreesOf(n, Names, PlainTypes, {Missing}) : n \in 0..MaxItems}
TagTrees == UNION {TreesOf(n, {<<"a">>}, TagVals, TagVals) : n \in 0..MaxTagItems}
FormTrees == UNION {TreesOf(n, {<<"a">>}, PlainTypes, {Missing}) : n \in 0..MaxFormItems}
SmallTrees == UNION {TreesOf(n, {<<"a">>}, PlainTypes, {Missing}) : n \in 0..MaxSmallItems}

\* The folder listings a walk of the remote issues when no request fails.
AllRequests == list_folder(ROOT, <<>>, <<>>, 0).reqs

\* The fates of one invocation: get_access_token() raises; the project
\* lookup raises (requests.get or raise_for_status); the lookup answers with
\* some rootId and every listing succeeds; listing number failAt raises.
Fate(tokenOk, lookup, rootId, failAt, msg) ==
  [tokenOk |-> tokenOk, lookup |-> lookup, rootId |-> rootId,
   failAt |-> failAt, msg |-> msg]

TokenFates(msgs) ==
  {Fate(FALSE, "ok", Missing, 0, m) : m \in msgs} \cup {Fate(TRUE, "ok", Missing, 0, <<>>)}

Fates(msgs) ==
  {Fate(FALSE, "ok", Missing, 0, m) : m \in msgs}
  \cup {Fate(TRUE, l, Missing, 0, m) : l \in {"network", "http"}, m \in msgs}
  \cup {Fate(TRUE, "ok", r, 0, <<>>) : r \in RootIds}
  \cup {Fate(TRUE, "ok", Str(ROOT), f, m) : f \in 1..Len(AllRequests), m \in msgs}

\* The fates of GET /projects: [tokenOk, fetch, projects, msg].
ProjectFates(lists) ==
  {[tokenOk |-> FALSE, fetch |-> "ok", projects |-> <<>>, msg |-> m] : m \in ErrMsgs}
  \cup {[tokenOk |-> TRUE, fetch |-> l, projects |-> <<>>, msg |-> m] :
          l \in {"network", "http"}, m \in ErrMsgs}
  \cup {[tokenOk |-> TRUE, fetch |-> "ok", projects |-> ps, msg |-> <<>>] :
          ps \in lists}

callVars == <<op, input, outcome, requests, files, lost, options, data, err>>
uiVars == <<params_project, params_file, project_options, file_options, built, html, message>>
vars == <<remote, callVars, uiVars>>

NoInput == [project |-> None, tokenOk |-> TRUE, lookup |-> "ok", rootId |-> Missing,
            failAt |-> 0, msg |-> <<>>, projects |-> <<>>]

NoDoc == [built |-> FALSE, access_token |-> <<>>, project_id |-> <<>>,
          model_id |-> <<>>, version_id |-> None]

InitCall ==
  /\ op = "none"
  /\ input = NoInput
  /\ outcome = "none"
  /\ requests = <<>>
  /\ files = <<>>
  /\ lost = <<>>
  /\ options = <<>>
  /\ data = NoData
  /\ err = <<>>

\* A new entity: no project selected, the file field at its default "".
InitUI ==
  /\ params_project = None
  /\ params_file = Str(<<>>)
  /\ project_options = <<>>
  /\ file_options = <<>>
  /\ built = NoDoc
  /\ html = <<>>
  /\ message = <<"none", "">>

InputOf(project, fate) ==
  [NoInput EXCEPT !.project = project, !.tokenOk = fate.tokenOk,
                  !.lookup = fate.lookup, !.rootId = fate.rootId,
                  !.failAt = fate.failAt, !.msg = fate.msg]

\* -------------------------------------------- the walk, one call at a time
\* A call of Controller.list_project_files(project_id, token).
CallListProjectFiles ==
  /\ op = "none"
  /\ \E fate \in {f \in Fates(WalkErrMsgs) : f.tokenOk} :
       LET r == list_project_files(fate.lookup, fate.rootId, fate.failAt, fate.msg) IN
       /\ op' = "list_project_files"
       /\ input' = InputOf(Str(PROJECT_1), fate)
       /\ outcome' = r.outcome
       /\ requests' = r.reqs
       /\ files' = r.files
       /\ lost' = r.lost
       /\ err' = r.err
  /\ UNCHANGED <<remote, options, data, uiVars>>

\* if params.project and params.project != "error"
ProjectListable(project) == Truthy(project) /\ project # Str(ERROR_VALUE)

\* Controller.test_oauth2_token(params).
TestOAuth2Token ==
  /\ op = "none"
  /\ \E project \in ParamProjects :
     \E fate \in IF ProjectListable(project) THEN Fates(WalkErrMsgs)
                   ELSE TokenFates(WalkErrMsgs) :
       LET listed == fate.tokenOk /\ ProjectListable(project)
           r == list_project_files(fate.lookup, fate.rootId, fate.failAt, fate.msg)
       IN
       /\ op' = "test_oauth2_token"
       /\ input' = InputOf(project, fate)
       /\ outcome' = IF fate.tokenOk THEN "returned" ELSE "raised"
       /\ err' = IF fate.tokenOk THEN <<>> ELSE fate.msg
       /\ requests' = IF listed THEN r.reqs ELSE <<>>
       /\ lost' = IF listed THEN r.lost ELSE <<>>
       /\ data' = IF listed THEN FileData(r) ELSE NoData
  /\ UNCHANGED <<remote, files, options, uiVars>>

InitWalk ==
  /\ remote \in PlainTrees \cup TagTrees
  /\ InitCall
  /\ InitUI

NextWalk ==
  \/ CallListProjectFiles
  \/ TestOAuth2Token

SpecWalk == InitWalk /\ [][NextWalk]_vars

\* --------------------------------------- the option lists, one call at a time
\* get_project_files(params), the options of the file field.
GetProjectFiles ==
  /\ op = "none"
  /\ \E project \in ParamProjects :
     \E fate \in IF Truthy(project) THEN Fates(ErrMsgs)
                   ELSE {Fate(TRUE, "ok", Missing, 0, <<>>)} :
       LET r == get_project_files(project, fate.tokenOk, fate.lookup, fate.rootId,
                                  fate.failAt, fate.msg)
       IN
       /\ op' = "get_project_files"
       /\ input' = InputOf(project, fate)
       /\ outcome' = "returned"
       /\ options' = r.options
       /\ requests' = r.reqs
       /\ lost' = r.lost
       /\ err' = r.err
  /\ UNCHANGED <<remote, files, data, uiVars>>

\* get_trimble_projects(), the options of the project field.
GetTrimbleProjects ==
  /\ op = "none"
  /\ \E fate \in ProjectFates(ProjectListsUpTo(MaxProjects)) :
       LET r == get_trimble_projects(fate.tokenOk, fate.fetch, fate.projects, fate.msg) IN
       /\ op' = "get_trimble_projects"
       /\ input' = [NoInput EXCEPT !.tokenOk = fate.tokenOk, !.lookup = fate.fetch,
                                   !.msg = fate.msg, !.projects = fate.projects]
       /\ outcome' = "returned"
       /\ options' = r.options
       /\ err' = r.err
  /\ UNCHANGED <<remote, requests, files, lost, data, uiVars>>

InitOptions ==
  /\ remote \in SmallTrees
  /\ InitCall
  /\ InitUI

NextOptions ==
  \/ GetProjectFiles
  \/ GetTrimbleProjects

SpecOptions == InitOptions /\ [][NextOptions]_vars

\* ------------------------------------------------ the viewer document alone
VersionIds == {None, Str(<<>>), Str(<<"v">>)}
HtmlInputs ==
  {<<>>, <<"T">>, <<"_">>, <<"_","_">>,
   <<"_","_","P","R","O","J","E","C","T","_","I","D","_">>,
   <<"_","M","O","D","E","L","_","I","D","_","_">>,
   ACCESS_TOKEN_MARKER, PROJECT_ID_MARKER, MODEL_ID_MARKER, VERSION_ID_MARKER}

Doc(access_token, project_id, model_id, version_id) ==
  [built |-> TRUE, access_token |-> access_token, project_id |-> project_id,
   model_id |-> model_id, version_id |-> version_id]

\* A call of build_trimble_viewer_html.
BuildViewerHtml ==
  /\ ~built.built
  /\ \E access_token \in HtmlInputs, project_id \in HtmlInputs,
        model_id \in HtmlInputs, version_id \in VersionIds :
       /\ built' = Doc(access_token, project_id, model_id, version_id)
       /\ html' = build_trimble_viewer_html(access_token, project_id, model_id, version_id)
  /\ UNCHANGED <<remote, callVars, params_project, params_file, project_options,
                 file_options, message>>

InitHtml ==
  /\ remote = <<>>
  /\ InitCall
  /\ InitUI

NextHtml == BuildViewerHtml

SpecHtml == InitHtml /\ [][NextHtml]_vars

\* ----------------------------------------------------------------- the form
\* The project field is (re)filled: options=get_trimble_projects.
PopulateProjects ==
  /\ \E fate \in ProjectFates(ProjectListsUpTo(MaxFormProjects)) :
       project_options' =
         get_trimble_projects(fate.tokenOk, fate.fetch, fate.projects, fate.msg).options
  /\ UNCHANGED <<remote, callVars, params_project, params_file, file_options,
                 built, html, message>>

\* The user picks one of the options the project field shows.  params.file
\* keeps its value; the file field shows no option until it is refilled for
\* the new params.
SelectProject ==
  /\ \E k \in 1..Len(project_options) : params_project' = project_options[k].value
  /\ file_options' = <<>>
  /\ UNCHANGED <<remote, callVars, params_file, project_options, built, html, message>>

\* The file field is (re)filled: options=get_project_files.
PopulateFiles ==
  /\ \E fate \in IF Truthy(params_project) THEN Fates(ErrMsgs)
                 ELSE {Fate(TRUE, "ok", Missing, 0, <<>>)} :
       file_options' =
         get_project_files(params_project, fate.tokenOk, fate.lookup, fate.rootId,
                           fate.failAt, fate.msg).options
  /\ UNCHANGED <<remote, callVars, params_project, params_file, project_options,
                 built, html, message>>

\* The user picks one of the options the file field shows.
SelectFile ==
  /\ \E k \in 1..Len(file_options) : params_file' = file_options[k].value
  /\ UNCHANGED <<remote, callVars, params_project, project_options, file_options,
                 built, html, message>>

\* if not params.project or params.project == "error"
ProjectUnselected == Not(params_project) \/ params_project = Str(ERROR_VALUE)

\* if not params.file or params.file == "error" or params.file == ""
FileUnselected ==
  Not(params_file) \/ params_file = Str(ERROR_VALUE) \/ params_file = Str(<<>>)

\* What download_viewer_html and show_trimble_viewer share: the two checks,
\* the token, the document.  report names how a refusal reaches the user.
ViewerAction(report, tokenOk) ==
  IF ProjectUnselected
  THEN /\ message' = <<report, "Please select a project first">>
       /\ built' = NoDoc /\ html' = <<>>
  ELSE IF FileUnselected
  THEN /\ message' = <<report, "Please select a file/model">>
       /\ built' = NoDoc /\ html' = <<>>
  ELSE IF ~tokenOk
  THEN /\ message' = <<"exception", "get_access_token">>
       /\ built' = NoDoc /\ html' = <<>>
  ELSE /\ message' = <<"none", "">>
       /\ built' = Doc(TOKEN, params_project.s, params_file.s, None)
       /\ html' = build_trimble_viewer_html(TOKEN, params_project.s, params_file.s, None)

\* Controller.download_viewer_html(params)
DownloadViewerHtml ==
  /\ \E tokenOk \in BOOLEAN : ViewerAction("UserError", tokenOk)
  /\ UNCHANGED <<remote, callVars, params_project, params_file, project_options,
                 file_options>>

\* Controller.show_trimble_viewer(params)
ShowTrimbleViewer ==
  /\ \E tokenOk \in BOOLEAN : ViewerAction("WebResult", tokenOk)
  /\ UNCHANGED <<remote, callVars, params_project, params_file, project_options,
                 file_options>>

InitForm ==
  /\ remote \in FormTrees
  /\ InitCall
  /\ InitUI

NextForm ==
  \/ PopulateProjects
  \/ SelectProject
  \/ PopulateFiles
  \/ SelectFile
  \/ DownloadViewerHtml
  \/ ShowTrimbleViewer

SpecForm == InitForm /\ [][NextForm]_vars

\* ------------------------------------------------- the tree, read directly
Items == 1..Len(remote)

RECURSIVE Chain(_)
\* The items on the way from the root folder down to item i, i last.
Chain(i) == IF i = 0 THEN <<>> ELSE Append(Chain(remote[i].parent), i)

ChainNames(i) == [k \in 1..Len(Chain(i)) |-> remote[Chain(i)[k]].name]

RECURSIVE SlashJoin(_)
\* "/".join(names)
SlashJoin(names) ==
  IF names = <<>> THEN <<>>
  ELSE IF Len(names) = 1 THEN names[1]
  ELSE names[1] \o <<"/">> \o SlashJoin(Tail(names))

FolderItemsOfTree == {i \in Items : ItemType(remote[i]) = FOLDER}
LeafItems == Items \ FolderItemsOfTree

\* The positions of the records of item i in the returned list.
RecordsOf(i) == {k \in 1..Len(files) : files[k].id = ItemId(i)}

OnlySlashes(name) == \A k \in 1..Len(name) : name[k] = "/"

ListedOk == op = "list_project_files" /\ outcome = "returned"

OneRecordPerLeaf ==
  /\ Len(files) = Cardinality(LeafItems)
  /\ \A i \in LeafItems : Cardinality(RecordsOf(i)) = 1
  /\ \A i \in FolderItemsOfTree : RecordsOf(i) = {}

\* C1, as stated: when every request succeeds list_project_files returns
\* exactly one record per leaf and none per folder, and a record's path is
\* empty only if the leaf's name and the names of all its ancestors are empty.
C1_Original ==
  ListedOk =>
    /\ OneRecordPerLeaf
    /\ \A i \in LeafItems : \A k \in RecordsOf(i) :
         files[k].path = <<>> => \A j \in 1..Len(Chain(i)) : ChainNames(i)[j] = <<>>

\* C1, amended: when every request succeeds list_project_files returns exactly
\* one record per leaf and none per folder, and a record's path is empty only
\* if the leaf's name and the names of all its ancestors hold nothing but "/"
\* characters (the empty name included).
C1_LeafRecords ==
  ListedOk =>
    /\ OneRecordPerLeaf
    /\ \A i \in LeafItems : \A k \in RecordsOf(i) :
         files[k].path = <<>> => \A j \in 1..Len(Chain(i)) : OnlySlashes(ChainNames(i)[j])

\* C1 witness: a walk returned two or more records, one for a leaf below an
\* empty-named folder with a non-empty path and one with an empty path.
C1_Witness ==
  /\ ListedOk
  /\ Len(files) >= 2
  /\ \E i \in LeafItems : Len(Chain(i)) >= 2 /\ remote[Chain(i)[1]].name = <<>>
                          /\ \E k \in RecordsOf(i) : files[k].path # <<>>
  /\ \E k \in 1..Len(files) : files[k].path = <<>>

\* C2: the path of the record of a leaf at depth D is the "/"-join of its D
\* ancestor folder names, root side first, and its own name, without the
\* leading slashes, whatever names are empty; it never starts with "/".
C2_PathIsJoin ==
  ListedOk =>
    \A i \in LeafItems : \A k \in RecordsOf(i) :
      /\ files[k].path = Lstrip(SlashJoin(ChainNames(i)))
      /\ files[k].path = <<>> \/ files[k].path[1] # "/"

\* C2 witness: a record of a leaf two folders deep whose outermost folder has
\* an empty name and whose own folder has a non-empty one.
C2_Witness ==
  /\ ListedOk
  /\ \E i \in LeafItems :
       /\ Len(Chain(i)) = 3
       /\ ChainNames(i)[1] = <<>>
       /\ ChainNames(i)[2] = <<"a">>
       /\ RecordsOf(i) # {}

NoDuplicateNames ==
  \A i, j \in Items :
    i # j /\ remote[i].parent = remote[j].parent => remote[i].name # remote[j].name

\* C3, as stated: when no folder holds two children of the same name, the
\* records of one enumeration have pairwise distinct paths.
C3_UniquePaths ==
  ListedOk /\ NoDuplicateNames =>
    \A k, l \in 1..Len(files) : k # l => files[k].path # files[l].path

HasSlash(name) == \E c \in 1..Len(name) : name[c] = "/"

\* C3, amended: when no folder holds two children of the same name, no name
\* contains "/" and no folder has an empty name, the records of one
\* enumeration have pairwise distinct paths.
C3_UniquePathsPlainNames ==
  /\ ListedOk
  /\ NoDuplicateNames
  /\ \A i \in Items : ~HasSlash(remote[i].name)
  /\ \A i \in FolderItemsOfTree : remote[i].name # <<>>
  => \A k, l \in 1..Len(files) : k # l => files[k].path # files[l].path

\* C3 witness: the root lists a leaf and a folder "a" under different names,
\* the folder holds a leaf "a", and both leaves were recorded.
C3_Witness ==
  /\ ListedOk
  /\ NoDuplicateNames
  /\ \A i \in Items : ~HasSlash(remote[i].name)
  /\ \A i \in FolderItemsOfTree : remote[i].name # <<>>
  /\ \E i, j \in LeafItems :
       /\ Len(Chain(i)) = 1
       /\ Len(Chain(j)) = 2 /\ ChainNames(j) = <<<<"a">>, <<"a">>>>
  /\ Len(files) = 2

\* The tag the claim reads: type, or entityType when type is missing or None.
StatedTag(item) == IF item.type.k = "str" THEN item.type ELSE item.entityType

\* The tag read when an empty type also counts as absent.
EffectiveTag(item) == IF Truthy(item.type) THEN item.type ELSE item.entityType

EqualIgnoringCase(a, b) ==
  /\ Len(a) = Len(b)
  /\ \A k \in 1..Len(a) : UpperChar(a[k]) = UpperChar(b[k])

IsFolderTag(tag) == tag.k = "str" /\ EqualIgnoringCase(tag.s, FOLDER)

\* Item i was recursed into and gave no record / gave a record and no request.
TreatedAsFolder(i) == (\E k \in 1..Len(requests) : requests[k] = ItemId(i)) /\ RecordsOf(i) = {}
TreatedAsLeaf(i) == (\A k \in 1..Len(requests) : requests[k] # ItemId(i)) /\ RecordsOf(i) # {}

\* C4, as stated: a child is walked as a folder exactly when its type, or its
\* entityType when type is absent (missing or null), is FOLDER in any case;
\* every other child is a leaf with a record.
C4_Original ==
  ListedOk =>
    \A i \in Items :
      /\ TreatedAsFolder(i) <=> IsFolderTag(StatedTag(remote[i]))
      /\ TreatedAsLeaf(i) <=> ~IsFolderTag(StatedTag(remote[i]))

\* C4, amended: a child is walked as a folder exactly when its type, or its
\* entityType when type is missing, null or the empty string, is FOLDER in any
\* case; every other child is a leaf with a record.
C4_Classification ==
  ListedOk =>
    \A i \in Items :
      /\ TreatedAsFolder(i) <=> IsFolderTag(EffectiveTag(remote[i]))
      /\ TreatedAsLeaf(i) <=> ~IsFolderTag(EffectiveTag(remote[i]))

\* C4 witness: a child whose type is absent and whose entityType is "folder"
\* in lower case was recursed into.
C4_Witness ==
  /\ ListedOk
  /\ \E i \in Items :
       /\ remote[i].type = Missing
       /\ remote[i].entityType = Str(<<"f","o","l","d","e","r">>)
       /\ TreatedAsFolder(i)

\* C5: when the project lookup answers without a rootId (missing, null or
\* empty) list_project_files raises and has issued no folder listing.
C5_NoRootNoListing ==
  op = "list_project_files" /\ input.lookup = "ok" /\ ~Truthy(input.rootId) =>
    outcome = "raised" /\ requests = <<>>

\* C5 witness: list_project_files ran on a lookup answer whose rootId is "".
C5_Witness ==
  /\ op = "list_project_files"
  /\ input.lookup = "ok"
  /\ input.rootId = Str(<<>>)
  /\ outcome = "raised"

\* C6: when a folder listing fails the enumeration raises and returns no
\* record, the failing request is the last one issued and no folder is
\* requested twice; test_oauth2_token then shows the error and no file.
C6_AllOrNothing ==
  /\ op = "list_project_files" /\ input.failAt > 0 =>
       /\ outcome = "raised"
       /\ files = <<>>
       /\ Len(requests) = input.failAt
       /\ \A k, l \in 1..Len(requests) : k # l => requests[k] # requests[l]
  /\ op = "test_oauth2_token" /\ input.failAt > 0 =>
       /\ data.failed
       /\ data.total = 0 /\ data.sample = <<>>
       /\ Len(requests) = input.failAt

\* C6 witness: a listing failed after the walk had already collected a record
\* and while requests for other folders were still to come.
C6_Witness ==
  /\ op = "list_project_files"
  /\ input.failAt > 0
  /\ lost # <<>>
  /\ Len(requests) < Len(AllRequests)

\* C7: for children x before y of one folder, every record of x or of a leaf
\* below x comes before every record of y or of a leaf below y.
C7_ListingOrder ==
  ListedOk =>
    \A x, y \in Items :
      remote[x].parent = remote[y].parent /\ x < y =>
        \A a, b \in LeafItems :
          (\E n \in 1..Len(Chain(a)) : Chain(a)[n] = x)
          /\ (\E n \in 1..Len(Chain(b)) : Chain(b)[n] = y) =>
            \A k \in RecordsOf(a), l \in RecordsOf(b) : k < l

\* C7 witness: the root lists a leaf and then a folder holding a leaf, and the
\* two records come in that order.
C7_Witness ==
  /\ ListedOk
  /\ Len(remote) = 3
  /\ remote[1].parent = 0 /\ 1 \in LeafItems
  /\ remote[2].parent = 0 /\ 2 \in FolderItemsOfTree
  /\ remote[3].parent = 2 /\ 3 \in LeafItems
  /\ Len(files) = 2 /\ files[1].id = ItemId(1) /\ files[2].id = ItemId(3)

\* C8: when get_access_token or a request fails while an option list is
\* filled, the handler still returns, and what it returns is the single
\* option of value "error" whose label ends with the message of the failure.
C8_SentinelOnFailure ==
  /\ op = "get_trimble_projects" /\ (~input.tokenOk \/ input.lookup # "ok") =>
       /\ outcome = "returned"
       /\ options = <<Option(Str(ERROR_VALUE), ERROR_LOADING_PROJECTS \o input.msg)>>
  /\ /\ op = "get_project_files"
     /\ Truthy(input.project)
     /\ (~input.tokenOk \/ input.lookup # "ok" \/ input.failAt > 0)
     => /\ outcome = "returned"
        /\ options = <<Option(Str(ERROR_VALUE), ERROR_LOADING_FILES \o input.msg)>>

\* C8 witness: get_project_files returned the sentinel after a listing failed
\* with the message "404" when the walk had already collected a record.
C8_Witness ==
  /\ op = "get_project_files"
  /\ input.failAt > 1
  /\ input.msg = <<"4","0","4">>
  /\ lost # <<>>
  /\ Len(options) = 1

Contains(s, sub) == \E i \in 1..Len(s) : StartsAt(s, i, sub)

Markers == {ACCESS_TOKEN_MARKER, PROJECT_ID_MARKER, MODEL_ID_MARKER, VERSION_ID_MARKER}

MarkerFree(s) == \A m \in Markers : ~Contains(s, m)

\* C9: for a token, a project id and a model id free of markers and no version
\* id, the document is the template with the three values where their markers
\* stood and nothing where the version marker stood, and holds no marker.
C9_Substitution ==
  /\ built.built
  /\ built.version_id = None
  /\ MarkerFree(built.access_token)
  /\ MarkerFree(built.project_id)
  /\ MarkerFree(built.model_id)
  => /\ html = TemplateHead \o built.access_token \o TemplateAfterToken
                \o built.project_id \o TemplateAfterProject \o built.model_id
                \o TemplateAfterModel \o TemplateTail
     /\ MarkerFree(html)

\* C9 witness: a document was built without version id from a token that is a
\* marker short of its last underscore, the project id "T" and an empty model id.
C9_Witness ==
  /\ built.built
  /\ built.version_id = None
  /\ built.access_token = <<"_","_","P","R","O","J","E","C","T","_","I","D","_">>
  /\ built.project_id = <<"T">>
  /\ built.model_id = <<>>
  /\ html # VIEWER_HTML_TEMPLATE

\* The values of the placeholder options of the two option lists.
SentinelValues == {<<>>, ERROR_VALUE, SELECT_PROJECT_FIRST}

\* C10: a viewer document is never built for a project id or a model id that
\* is the value of a placeholder option ("", "error", "Select a Project First").
C10_NoSentinelInDocument ==
  built.built =>
    /\ built.project_id \notin SentinelValues
    /\ built.model_id \notin SentinelValues

====
